---- MODULE Spec2Model ----
(***************************************************************************)
(* Payment gateway wrappers: the PhonePe v2 OAuth token cache and gateway  *)
(* operations (phonepe module) and the Cashfree gateway operations         *)
(* (backend/gateways/cashfree.js).                                         *)
(*                                                                         *)
(* JavaScript numbers that exceed 32 bits (epoch milliseconds, the         *)
(* 9999999999 threshold) are kept exact as pairs hi * Base + lo with       *)
(* 0 <= lo < Base.  Amounts are decimals kept in thousandths.              *)
(***************************************************************************)
EXTENDS Integers, Sequences, FiniteSets, TLC

----------------------------------------------------------------------------
(* Bounds of the exploration *)

MaxTicks == 3

MaxCalls == 3

----------------------------------------------------------------------------
(* Exact arithmetic on JavaScript numbers *)

Base == 1000 * 1000 * 1000

Num(h, l) == [t |-> "num", hi |-> h, lo |-> l]

Undefined == [t |-> "undefined", hi |-> 0, lo |-> 0]

Null == [t |-> "null", hi |-> 0, lo |-> 0]

NaN == [t |-> "nan", hi |-> 0, lo |-> 0]

IsNum(v) == v.t = "num"

\* ToNumber: null -> 0, undefined -> NaN
ToNumber(v) ==
  IF v.t = "num" THEN v
  ELSE IF v.t = "null" THEN Num(0, 0)
  ELSE NaN

\* a < b on JavaScript values; any comparison with NaN is false
JsLess(a, b) ==
  LET x == ToNumber(a)
      y == ToNumber(b)
  IN  /\ IsNum(x)
      /\ IsNum(y)
      /\ \/ x.hi < y.hi
         \/ x.hi = y.hi /\ x.lo < y.lo

JsGreater(a, b) == JsLess(b, a)

\* a * 1000
JsTimes1000(a) ==
  LET x == ToNumber(a)
  IN  IF IsNum(x)
      THEN Num(x.hi * 1000 + (x.lo \div 1000000), (x.lo % 1000000) * 1000)
      ELSE NaN

\* a - k for 0 <= k < Base
JsMinus(a, k) ==
  LET x == ToNumber(a)
  IN  IF IsNum(x)
      THEN IF x.lo >= k THEN Num(x.hi, x.lo - k)
                        ELSE Num(x.hi - 1, x.lo + Base - k)
      ELSE NaN

\* a + k for 0 <= k < Base
JsPlus(a, k) ==
  LET x == ToNumber(a)
  IN  IF IsNum(x)
      THEN IF x.lo + k < Base THEN Num(x.hi, x.lo + k)
                              ELSE Num(x.hi + 1, x.lo + k - Base)
      ELSE NaN

\* Largest time value of a Date: 8.64e15 ms either side of the epoch
MaxDateMs == Num(8640000, 0)

MinDateMs == Num(-8640000, 0)

\* new Date(v).toISOString() throws RangeError for an invalid time value
ToISOStringThrows(v) ==
  \/ ~IsNum(ToNumber(v))
  \/ JsLess(MaxDateMs, v)
  \/ JsLess(v, MinDateMs)

----------------------------------------------------------------------------
(* Program constants *)

SafetyMarginMs == 60000

SecondsThreshold == Num(9, 999999999)

NoToken == "undefined"

NullToken == "null"

\* truthiness of an access token value
Truthy(tok) == tok \notin {"undefined", "null", ""}

EmptyCache == [accessToken |-> NullToken, expiresAt |-> Null]

----------------------------------------------------------------------------
(* Inputs: environment, vendor answers, parameters *)

\* two callers whose operations may overlap
Procs == {1, 2}

Tokens == {"T1", "T2"}

\* expires_at values a token response may carry
ExpiresAtValues ==
  { Undefined,
    Num(1, 700000000),        \* 1700000000       (seconds)
    Num(1700, 0),             \* 1700000000000    (milliseconds)
    Num(1700, 20000),         \* 1700000020000    (milliseconds)
    Num(9, 999999998),        \* 9999999998
    Num(9, 999999999),        \* 9999999999
    Num(10, 0),               \* 10000000000
    Num(8640000, 60001) }     \* past the range of Date

\* body of a 2xx answer of the OAuth endpoint
TokenBodies ==
  [access_token : Tokens, expires_at : ExpiresAtValues]
    \cup {[access_token |-> NoToken, expires_at |-> Undefined]}

\* what a thrown value carries for the catch blocks
Thrown(msg) ==
  [message |-> msg, hasResponse |-> FALSE, status |-> "", dataError |-> ""]

\* rejections of an axios call: transport failure, non-2xx answer
AxiosFailures ==
  { Thrown("Network Error"),
    [message |-> "Request failed with status code 401", hasResponse |-> TRUE,
     status |-> "401", dataError |-> "invalid_client"],
    [message |-> "Request failed with status code 500", hasResponse |-> TRUE,
     status |-> "500", dataError |-> ""] }

NoError == [name |-> "none", prefix |-> "", message |-> "", status |-> ""]

\* amounts in thousandths of the major unit
Amounts == {199500, 199004, 199006, 500000}

InitialNow == Num(1699, 999900000)

TickMs == 20 * 1000

PhonePeOps ==
  {"createPhonePeOrder", "checkPhonePeTransactionStatus", "refundPhonePePayment"}

CashfreeOps ==
  {"createCashfreeOrder", "getCashfreeOrderDetails",
   "getCashfreePaymentDetails", "refundCashfreePayment"}

----------------------------------------------------------------------------
(* State *)

VARIABLES
  tokenCache,        \* module-level OAuth token cache
  now,               \* Date.now()
  ticks,             \* clock advances so far
  hasClientId,       \* PHONEPE_CLIENT_ID is set
  hasClientSecret,   \* PHONEPE_CLIENT_SECRET is set
  calls,             \* exported operations invoked so far
  proc,              \* per caller: the pending asynchronous operation
  hook               \* the last webhook handled: vendor, payload, result

vars ==
  <<tokenCache, now, ticks, hasClientId, hasClientSecret, calls, proc, hook>>

\* webhook payloads: the payload itself, its data field and (Cashfree) the
\* order inside it may each be missing
Payloads ==
  { [kind |-> k, data |-> d, order |-> o, id |-> i, state |-> st, success |-> su] :
      k \in {"undefined", "null", "object"},
      d \in {"absent", "object"},
      o \in {"absent", "object"},
      i \in {"undefined", "ORD1"},
      st \in {"undefined", "COMPLETED", "PAID", "FAILED"},
      su \in {"undefined", "true", "false"} }

NoPayload ==
  [kind |-> "undefined", data |-> "absent", order |-> "absent",
   id |-> "undefined", state |-> "undefined", success |-> "undefined"]

NoHookResult ==
  [raised |-> FALSE, processed |-> "undefined", orderId |-> "undefined",
   status |-> "undefined", success |-> "undefined"]

NoHook == [vendor |-> "none", payload |-> NoPayload, result |-> NoHookResult]

IdleProc ==
  [ pc         |-> "idle",
    op         |-> "none",
    amount     |-> 0,
    observed   |-> "none",     \* outcome of the cache test of getAccessToken
    tokReqs    |-> 0,          \* requests to the OAuth endpoint by this call
    tokOutcome |-> "none",     \* getAccessToken: pending / returned / raised
    tokValue   |-> NullToken,  \* token getAccessToken returned
    tokBody    |-> [access_token |-> NoToken, expires_at |-> Undefined],
    tokCause   |-> "none",     \* statement that threw inside getAccessToken
    tokErr     |-> NoError,    \* error getAccessToken threw
    cleared    |-> FALSE,      \* clearTokenCache ran while the request was out
    apiReqs    |-> 0,          \* requests to the gateway endpoint
    sentAmount |-> -1,         \* amount in the request body, in thousandths
    sentRef    |-> Undefined,  \* timestamp reference sent with the request
    failed     |-> FALSE,      \* a vendor call of this operation was rejected
    outcome    |-> "none",     \* operation: returned / raised
    err        |-> NoError ]

Init ==
  /\ tokenCache = EmptyCache
  /\ now = InitialNow
  /\ ticks = 0
  /\ hasClientId \in BOOLEAN
  /\ hasClientSecret \in BOOLEAN
  /\ calls = 0
  /\ proc = [p \in Procs |-> IdleProc]
  /\ hook = NoHook

----------------------------------------------------------------------------
(* getAccessToken *)

\* variant: the safety margin is taken off a second time at the test
CacheValidDoubleMargin(cache, t) ==
  /\ Truthy(cache.accessToken)
  /\ JsGreater(cache.expiresAt, JsPlus(t, SafetyMarginMs))

\* the cache test: tokenCache.accessToken && tokenCache.expiresAt > Date.now()
CacheValid(cache, t) ==
  /\ Truthy(cache.accessToken)
  /\ JsGreater(cache.expiresAt, t)

CredentialsMissing == ~hasClientId \/ ~hasClientSecret

\* variant: the threshold itself still counts as seconds
NormalizeExpiryInclusive(expires_at) ==
  LET expiryTime == IF ~JsLess(SecondsThreshold, expires_at)
                    THEN JsTimes1000(expires_at)
                    ELSE expires_at
  IN  JsMinus(expiryTime, SafetyMarginMs)

\* expiry stored for a returned expires_at
NormalizeExpiry(expires_at) ==
  LET expiryTime == IF JsLess(expires_at, SecondsThreshold)
                    THEN JsTimes1000(expires_at)
                    ELSE expires_at
  IN  JsMinus(expiryTime, SafetyMarginMs)

\* error.response?.data?.error || error.response?.data?.message || error.message
ErrorMessage(e) ==
  IF e.hasResponse /\ e.dataError # "" THEN e.dataError ELSE e.message

\* error.response?.status || 'Unknown'
ErrorStatus(e) ==
  IF e.hasResponse THEN e.status ELSE "Unknown"

\* the catch block of getAccessToken
OAuthCatch(e) ==
  [name |-> "Error", prefix |-> "PhonePe v2 OAuth Error",
   message |-> ErrorMessage(e), status |-> ErrorStatus(e)]

\* the catch block of each PhonePe operation, e the value it caught
PhonePeCatch(op, e) ==
  IF op = "createPhonePeOrder"
  THEN [name |-> "Error", prefix |-> "PhonePe v2 API Error",
        message |-> ErrorMessage(e), status |-> ErrorStatus(e)]
  ELSE IF op = "checkPhonePeTransactionStatus"
  THEN [name |-> "Error", prefix |-> "Failed to check PhonePe transaction status",
        message |-> e.message, status |-> ""]
  ELSE [name |-> "Object", prefix |-> "Failed to refund PhonePe payment",
        message |-> e.message, status |-> ""]

\* getAccessToken threw inner error e at statement cause; the operation's
\* catch block turns the error of getAccessToken into its own
TokenRaise(r, cause, e) ==
  [r EXCEPT !.pc = "done",
            !.tokOutcome = "raised",
            !.tokCause = cause,
            !.tokErr = OAuthCatch(e),
            !.outcome = "raised",
            !.err = PhonePeCatch(r.op, Thrown(OAuthCatch(e).message))]

\* the synchronous part of getAccessToken, up to its first await
TokenBegin(r) ==
  IF CacheValid(tokenCache, now)
  THEN [r EXCEPT !.pc = "gotToken", !.observed = "hit",
                 !.tokOutcome = "returned",
                 !.tokValue = tokenCache.accessToken]
  ELSE IF CredentialsMissing
  THEN TokenRaise([r EXCEPT !.observed = "miss"], "config",
                  Thrown("PhonePe credentials not configured"))
  ELSE [r EXCEPT !.pc = "tokenWait", !.observed = "miss",
                 !.tokOutcome = "pending", !.tokReqs = r.tokReqs + 1]

\* a PhonePe operation is invoked and runs into getAccessToken
StartPhonePe(p, op, amt) ==
  /\ proc[p].pc = "idle"
  /\ calls < MaxCalls
  /\ calls' = calls + 1
  /\ proc' = [proc EXCEPT ![p] =
                TokenBegin([IdleProc EXCEPT !.op = op, !.amount = amt])]
  /\ UNCHANGED <<tokenCache, now, ticks, hasClientId, hasClientSecret, hook>>

\* variant: an answer does not replace a token that is still fresh
CacheAfterAnswerKeepFresh(cache, body) ==
  IF Truthy(body.access_token) /\ ~CacheValid(cache, now)
  THEN [accessToken |-> body.access_token,
        expiresAt |-> NormalizeExpiry(body.expires_at)]
  ELSE cache

\* the cache after a 2xx answer with this body has been handled
CacheAfterAnswer(cache, body) ==
  IF Truthy(body.access_token)
  THEN [accessToken |-> body.access_token,
        expiresAt |-> NormalizeExpiry(body.expires_at)]
  ELSE cache

\* the caller's state after a 2xx answer with this body has been handled
ProcAfterAnswer(r, body) ==
  IF ~Truthy(body.access_token)
  THEN TokenRaise([r EXCEPT !.tokBody = body], "noToken",
                  Thrown("No access token in response"))
  ELSE IF ToISOStringThrows(NormalizeExpiry(body.expires_at))
  THEN TokenRaise([r EXCEPT !.tokBody = body], "logging",
                  Thrown("Invalid time value"))
  ELSE [r EXCEPT !.pc = "gotToken", !.tokBody = body,
                 !.tokOutcome = "returned",
                 !.tokValue = body.access_token]

\* the OAuth endpoint answers 2xx
TokenResolved(p, body) ==
  /\ proc[p].pc = "tokenWait"
  /\ tokenCache' = CacheAfterAnswer(tokenCache, body)
  /\ proc' = [proc EXCEPT ![p] = ProcAfterAnswer(proc[p], body)]
  /\ UNCHANGED <<now, ticks, hasClientId, hasClientSecret, calls, hook>>

\* the caller's state after the token request was rejected
ProcAfterTokenRejected(r, e) ==
  TokenRaise([r EXCEPT !.failed = TRUE], "request", e)

\* the token request fails (transport failure or non-2xx answer)
TokenRejected(p, e) ==
  /\ proc[p].pc = "tokenWait"
  /\ proc' = [proc EXCEPT ![p] = ProcAfterTokenRejected(proc[p], e)]
  /\ UNCHANGED <<tokenCache, now, ticks, hasClientId, hasClientSecret, calls, hook>>

\* the callers' records after a clear: the token requests then in flight
\* are marked, nothing else of a caller changes
MarkInFlight ==
  [p \in Procs |-> IF proc[p].pc = "tokenWait"
                   THEN [proc[p] EXCEPT !.cleared = TRUE]
                   ELSE proc[p]]

\* variant: only the expiry is reset, the token stays
clearTokenCacheExpiryOnly ==
  /\ tokenCache' = [tokenCache EXCEPT !.expiresAt = Null]
  /\ proc' = MarkInFlight
  /\ UNCHANGED <<now, ticks, hasClientId, hasClientSecret, calls, hook>>

clearTokenCache ==
  /\ tokenCache' = EmptyCache
  /\ proc' = MarkInFlight
  /\ UNCHANGED <<now, ticks, hasClientId, hasClientSecret, calls, hook>>

\* the clock advances
Tick ==
  /\ ticks < MaxTicks
  /\ ticks' = ticks + 1
  /\ now' = JsPlus(now, TickMs)
  /\ UNCHANGED <<tokenCache, hasClientId, hasClientSecret, calls, proc, hook>>

----------------------------------------------------------------------------
(* Gateway operations *)

\* variant: the fraction is cut off instead of rounded
AmountInPaiseTruncated(amt) == (amt * 100) \div 1000

\* Math.round(amount * 100) for an amount in thousandths: half rounds up
AmountInPaise(amt) == (amt * 100 + 500) \div 1000

\* an integer as a number in thousandths
Whole(n) == n * 1000

\* the request a PhonePe operation sends once it holds the token
PhonePeRequest(r) ==
  IF r.op = "createPhonePeOrder"
  THEN [r EXCEPT !.pc = "apiWait", !.apiReqs = r.apiReqs + 1,
                 !.sentAmount = Whole(AmountInPaise(r.amount))]
  ELSE IF r.op = "checkPhonePeTransactionStatus"
  THEN [r EXCEPT !.pc = "apiWait", !.apiReqs = r.apiReqs + 1]
  ELSE [r EXCEPT !.pc = "apiWait", !.apiReqs = r.apiReqs + 1,
                 !.sentAmount = Whole(AmountInPaise(r.amount)),
                 !.sentRef = now]       \* refundId: `REFUND_${Date.now()}`

\* the operation resumes after await getAccessToken()
ContinuePhonePe(p) ==
  /\ proc[p].pc = "gotToken"
  /\ proc' = [proc EXCEPT ![p] = PhonePeRequest(proc[p])]
  /\ UNCHANGED <<tokenCache, now, ticks, hasClientId, hasClientSecret, calls, hook>>

\* the request a Cashfree operation sends when it is invoked
CashfreeRequest(r) ==
  IF r.op = "createCashfreeOrder"
  THEN [r EXCEPT !.pc = "apiWait", !.apiReqs = r.apiReqs + 1,
                 !.sentAmount = r.amount,     \* order_amount: Number(amount)
                 !.sentRef = now]             \* x-idempotency-key
  ELSE IF r.op = "refundCashfreePayment"
  THEN [r EXCEPT !.pc = "apiWait", !.apiReqs = r.apiReqs + 1,
                 !.sentAmount = r.amount,     \* refund_amount: Number(amount)
                 !.sentRef = now]             \* x-idempotency-key
  ELSE [r EXCEPT !.pc = "apiWait", !.apiReqs = r.apiReqs + 1]

StartCashfree(p, op, amt) ==
  /\ proc[p].pc = "idle"
  /\ calls < MaxCalls
  /\ calls' = calls + 1
  /\ proc' = [proc EXCEPT ![p] =
                CashfreeRequest([IdleProc EXCEPT !.op = op, !.amount = amt])]
  /\ UNCHANGED <<tokenCache, now, ticks, hasClientId, hasClientSecret, hook>>

\* Cashfree operations hand the rejection of axios to their caller as it is
CashfreeCatch(op, e) ==
  [name |-> "AxiosError", prefix |-> "", message |-> e.message,
   status |-> IF e.hasResponse THEN e.status ELSE ""]

\* variant: a rejected gateway request is sent once more
ProcAfterApiRejectedRetry(r, e) ==
  [r EXCEPT !.failed = TRUE, !.apiReqs = r.apiReqs + 1]

\* the caller's state after the gateway request was rejected
ProcAfterApiRejected(r, e) ==
  [r EXCEPT !.pc = "done", !.failed = TRUE, !.outcome = "raised",
            !.err = IF r.op \in PhonePeOps THEN PhonePeCatch(r.op, e)
                                           ELSE CashfreeCatch(r.op, e)]

\* the gateway endpoint answers 2xx: the operation returns response.data
ApiResolved(p) ==
  /\ proc[p].pc = "apiWait"
  /\ proc' = [proc EXCEPT ![p].pc = "done", ![p].outcome = "returned"]
  /\ UNCHANGED <<tokenCache, now, ticks, hasClientId, hasClientSecret, calls, hook>>

\* the gateway request fails (transport failure or non-2xx answer)
ApiRejected(p, e) ==
  /\ proc[p].pc = "apiWait"
  /\ proc' = [proc EXCEPT ![p] = ProcAfterApiRejected(proc[p], e)]
  /\ UNCHANGED <<tokenCache, now, ticks, hasClientId, hasClientSecret, calls, hook>>

\* the caller takes the result; it may invoke another operation
Return(p) ==
  /\ proc[p].pc = "done"
  /\ proc' = [proc EXCEPT ![p] = IdleProc]
  /\ UNCHANGED <<tokenCache, now, ticks, hasClientId, hasClientSecret, calls, hook>>

----------------------------------------------------------------------------
(* Webhook handlers *)

\* webhookData?.data is an object
HasData(payload) == payload.kind = "object" /\ payload.data = "object"

\* payload?.data?.order is an object
HasOrder(payload) == HasData(payload) /\ payload.order = "object"

\* handlePhonePeWebhook: its result for a payload
PhonePeHookResult(payload) ==
  IF ~HasData(payload)          \* !webhookData || !data
  THEN [raised |-> FALSE, processed |-> "false", orderId |-> "undefined",
        status |-> "undefined", success |-> "undefined"]
  ELSE [raised |-> FALSE, processed |-> "true", orderId |-> payload.id,
        status |-> payload.state, success |-> payload.success]

\* variant: payload.data.order is read without ?.
CashfreeHookResultStrict(payload) ==
  LET paymentStatus == IF HasOrder(payload) THEN payload.state ELSE "undefined"
  IN  [raised |-> ~HasData(payload), processed |-> "undefined",
       orderId |-> IF HasOrder(payload) THEN payload.id ELSE "undefined",
       status |-> paymentStatus,
       success |-> IF paymentStatus = "PAID" THEN "true" ELSE "false"]

\* handleCashfreeWebhook: its result for a payload; every access is ?.
CashfreeHookResult(payload) ==
  LET paymentStatus == IF HasOrder(payload) THEN payload.state ELSE "undefined"
  IN  [raised |-> FALSE, processed |-> "undefined",
       orderId |-> IF HasOrder(payload) THEN payload.id ELSE "undefined",
       status |-> paymentStatus,
       success |-> IF paymentStatus = "PAID" THEN "true" ELSE "false"]

handlePhonePeWebhook(payload) ==
  /\ hook' = [vendor |-> "phonepe", payload |-> payload,
              result |-> PhonePeHookResult(payload)]
  /\ UNCHANGED <<tokenCache, now, ticks, hasClientId, hasClientSecret, calls, proc>>

handleCashfreeWebhook(payload) ==
  /\ hook' = [vendor |-> "cashfree", payload |-> payload,
              result |-> CashfreeHookResult(payload)]
  /\ UNCHANGED <<tokenCache, now, ticks, hasClientId, hasClientSecret, calls, proc>>

----------------------------------------------------------------------------
(* Specifications *)

NetworkError == Thrown("Network Error")

\* expires_at values used where callers overlap
FewExpiresAt == {Undefined, Num(1, 700000000), Num(1700, 20000)}

FewBodies ==
  [access_token : Tokens, expires_at : FewExpiresAt]
    \cup {[access_token |-> NoToken, expires_at |-> Undefined]}

\* Token cache under two overlapping callers
Next ==
  \/ \E p \in Procs : StartPhonePe(p, "checkPhonePeTransactionStatus", 0)
  \/ \E p \in Procs, body \in FewBodies : TokenResolved(p, body)
  \/ \E p \in Procs, e \in AxiosFailures : TokenRejected(p, e)
  \/ \E p \in Procs : ContinuePhonePe(p)
  \/ \E p \in Procs : ApiResolved(p)
  \/ \E p \in Procs : ApiRejected(p, NetworkError)
  \/ \E p \in Procs : Return(p)
  \/ clearTokenCache
  \/ Tick

Spec == Init /\ [][Next]_vars

AmountOf(op) ==
  IF op \in {"createPhonePeOrder", "refundPhonePePayment",
             "createCashfreeOrder", "refundCashfreePayment"}
  THEN Amounts ELSE {0}

OneBody == {[access_token |-> "T1", expires_at |-> Num(1700, 20000)]}

\* Every gateway operation of both vendors under two overlapping callers
NextGateway ==
  \/ \E p \in Procs, op \in PhonePeOps : StartPhonePe(p, op, 500000)
  \/ \E p \in Procs, body \in OneBody : TokenResolved(p, body)
  \/ \E p \in Procs : TokenRejected(p, NetworkError)
  \/ \E p \in Procs : ContinuePhonePe(p)
  \/ \E p \in Procs, op \in CashfreeOps : StartCashfree(p, op, 500000)
  \/ \E p \in Procs : ApiResolved(p)
  \/ \E p \in Procs : ApiRejected(p, NetworkError)
  \/ \E p \in Procs : Return(p)
  \/ Tick

SpecGateway == Init /\ [][NextGateway]_vars

\* One caller at a time, over the full range of inputs
NextSeq ==
  \/ \E op \in PhonePeOps : \E amt \in AmountOf(op) : StartPhonePe(1, op, amt)
  \/ \E body \in TokenBodies : TokenResolved(1, body)
  \/ \E e \in AxiosFailures : TokenRejected(1, e)
  \/ ContinuePhonePe(1)
  \/ \E op \in CashfreeOps : \E amt \in AmountOf(op) : StartCashfree(1, op, amt)
  \/ ApiResolved(1)
  \/ \E e \in AxiosFailures : ApiRejected(1, e)
  \/ Return(1)
  \/ clearTokenCache
  \/ Tick

SpecSeq == Init /\ [][NextSeq]_vars

\* The webhook handlers over the payload shapes
NextWebhook ==
  \/ \E payload \in Payloads : handlePhonePeWebhook(payload)
  \/ \E payload \in Payloads : handleCashfreeWebhook(payload)

SpecWebhook == Init /\ [][NextWebhook]_vars

----------------------------------------------------------------------------
(* Properties *)

\* p invokes a PhonePe operation in this step, which runs getAccessToken
Invokes(p) == proc[p].pc = "idle" /\ proc'[p].op \in PhonePeOps

\* the answer of the OAuth endpoint to p is handled in this step
Answered(p) == proc[p].pc = "tokenWait" /\ proc'[p].pc # "tokenWait"

\* the cache holds a token whose stored expiry is later than the clock
HoldsFreshToken ==
  /\ tokenCache.accessToken \in Tokens
  /\ IsNum(tokenCache.expiresAt)
  /\ \/ tokenCache.expiresAt.hi > now.hi
     \/ tokenCache.expiresAt.hi = now.hi /\ tokenCache.expiresAt.lo > now.lo

\* C1: a getAccessToken call that finds a cached token with stored expiry
\* strictly later than the clock returns that token, and from the call to its
\* end no request to the OAuth endpoint is made for it.
C1_TokenReuse ==
  /\ [][\A p \in Procs :
          (Invokes(p) /\ HoldsFreshToken)
            => /\ proc'[p].tokOutcome = "returned"
               /\ proc'[p].tokValue = tokenCache.accessToken
               /\ proc'[p].tokReqs = 0]_vars
  /\ [](\A p \in Procs : proc[p].observed = "hit" => proc[p].tokReqs = 0)

\* a call reused a token that an earlier call stored, after the clock advanced
C1_Witness ==
  \E p \in Procs :
    /\ proc[p].observed = "hit"
    /\ proc[p].tokValue \in Tokens
    /\ ticks >= 1
    /\ calls >= 2

\* the expiry the specification prescribes for a returned expires_at:
\* seconds below 9,999,999,999, milliseconds from there on, less 60,000 ms
ClaimedExpiry(e) ==
  IF e.hi < 9 \/ (e.hi = 9 /\ e.lo < 999999999)
  THEN JsMinus(JsTimes1000(e), 60000)
  ELSE JsMinus(e, 60000)

\* C2: a getAccessToken call that finds no fresh token, with credentials
\* configured, makes exactly one token request; when the answer carries an
\* access token the cache then holds that token with expiry = returned
\* expiry in milliseconds - 60,000 and the call returns that token.
C2_TokenRefresh ==
  /\ [][\A p \in Procs :
          (Invokes(p) /\ ~HoldsFreshToken /\ hasClientId /\ hasClientSecret)
            => proc'[p].tokReqs = 1]_vars
  /\ [](\A p \in Procs : proc[p].tokReqs <= 1)
  /\ [][\A p \in Procs :
          (Answered(p) /\ proc'[p].tokBody.access_token \in Tokens)
            => /\ tokenCache' =
                    [accessToken |-> proc'[p].tokBody.access_token,
                     expiresAt |-> ClaimedExpiry(proc'[p].tokBody.expires_at)]
               /\ proc'[p].tokOutcome = "returned"
               /\ proc'[p].tokValue = proc'[p].tokBody.access_token]_vars

ErrorKind(e) == <<e.name, e.prefix>>

\* C4: with no fresh token and the client id or secret absent,
\* getAccessToken makes no token request and fails with an error whose kind
\* differs from the kind of the error it raises when the vendor call fails.
C4_ErrorKinds ==
  \A p \in Procs :
    proc[p].tokCause = "config"
      => /\ proc[p].tokReqs = 0
         /\ ErrorKind(proc[p].tokErr) # ErrorKind(OAuthCatch(NetworkError))

\* C5: for every numeric expires_at the stored expiry is expires_at * 1000 -
\* 60000 below 9,999,999,999 and expires_at - 60000 from 9,999,999,999 on;
\* 1700000000 and 1700000000000 both store 1700000000000 - 60000.
C5_ExpiryNormalization ==
  [][\A p \in Procs :
       (Answered(p) /\ proc'[p].tokBody.access_token \in Tokens
                    /\ IsNum(proc'[p].tokBody.expires_at))
         => LET e == proc'[p].tokBody.expires_at
                stored == tokenCache'.expiresAt
            IN  /\ stored = ClaimedExpiry(e)
                /\ e \in {Num(1, 700000000), Num(1700, 0)}
                     => stored = Num(1699, 999940000)
                /\ e = Num(9, 999999999) => stored = Num(9, 999939999)
                /\ e = Num(9, 999999998) => stored = Num(9999, 999938000)]_vars

\* the boundary value 9,999,999,999 was returned and stored as milliseconds
C5_Witness ==
  /\ proc[1].tokBody.expires_at = Num(9, 999999999)
  /\ proc[1].tokBody.access_token \in Tokens
  /\ tokenCache = [accessToken |-> proc[1].tokBody.access_token,
                   expiresAt |-> Num(9, 999939999)]

\* the handled payload is absent or has no data field
Malformed == hook.payload.kind # "object" \/ hook.payload.data = "absent"

\* C6 (as stated): for a payload that is absent or lacks the data field,
\* handlePhonePeWebhook returns processed = false without raising and
\* handleCashfreeWebhook raises.
C6_MalformedWebhook ==
  /\ (hook.vendor = "phonepe" /\ Malformed)
       => (~hook.result.raised /\ hook.result.processed = "false")
  /\ (hook.vendor = "cashfree" /\ Malformed) => hook.result.raised

\* C6 (amended): for a payload that is absent or lacks the data field,
\* handlePhonePeWebhook returns processed = false without raising, and
\* handleCashfreeWebhook does not raise either: it returns its object with
\* orderId and status undefined and success = false.
C6_MalformedWebhookAmended ==
  /\ (hook.vendor = "phonepe" /\ Malformed)
       => (~hook.result.raised /\ hook.result.processed = "false")
  /\ (hook.vendor = "cashfree" /\ Malformed)
       => /\ ~hook.result.raised
          /\ hook.result.orderId = "undefined"
          /\ hook.result.status = "undefined"
          /\ hook.result.success = "false"

\* the Cashfree handler was given a null payload
C6_Witness ==
  /\ hook.vendor = "cashfree"
  /\ hook.payload.kind = "null"
  /\ hook.result.success = "false"

\* vendor requests an operation has issued
Requests(r) == r.tokReqs + r.apiReqs

\* C7: an operation one of whose vendor calls failed ends by raising to its
\* caller, never by returning, and issues no vendor request after the failure.
C7_FailuresRaise ==
  /\ [](\A p \in Procs :
          proc[p].failed => (proc[p].pc = "done" /\ proc[p].outcome = "raised"))
  /\ [][\A p \in Procs :
          (proc[p].failed /\ proc'[p].failed)
            => Requests(proc'[p]) = Requests(proc[p])]_vars

\* a PhonePe order creation failed at the gateway call after one token
\* request and one gateway request, and a Cashfree operation failed too
C7_Witness ==
  /\ proc[1].failed
  /\ proc[1].op = "createPhonePeOrder"
  /\ proc[1].tokReqs = 1
  /\ proc[1].apiReqs = 1
  /\ proc[1].outcome = "raised"
  /\ proc[2].failed
  /\ proc[2].op = "refundCashfreePayment"
  /\ proc[2].outcome = "raised"

RefundOps == {"refundPhonePePayment", "refundCashfreePayment"}

\* C8: two refund invocations of the same vendor send distinct references,
\* also when both read the same clock millisecond.
C8_UniqueRefundRefs ==
  \A p, q \in Procs :
    (/\ p # q
     /\ proc[p].op \in RefundOps
     /\ proc[q].op = proc[p].op
     /\ IsNum(proc[p].sentRef)
     /\ IsNum(proc[q].sentRef))
      => proc[p].sentRef # proc[q].sentRef

\* the request body carries amount * 100 rounded to the nearest integer
SentMinorUnits(r) ==
  /\ r.sentAmount % 1000 = 0
  /\ r.sentAmount - r.amount * 100 <= 500
  /\ r.amount * 100 - r.sentAmount < 500
  /\ r.amount = 199500 => r.sentAmount = Whole(19950)
  /\ r.amount = 199004 => r.sentAmount = Whole(19900)
  /\ r.amount = 500000 => r.sentAmount = Whole(50000)

\* C9 (as stated): createPhonePeOrder and createCashfreeOrder both send the
\* amount in minor units: amount * 100 rounded to the nearest integer.
C9_AmountConversion ==
  \A p \in Procs :
    (proc[p].op \in {"createPhonePeOrder", "createCashfreeOrder"}
       /\ proc[p].apiReqs >= 1)
      => SentMinorUnits(proc[p])

\* C9 (amended): createPhonePeOrder sends amount * 100 rounded to the nearest
\* integer (199.5 -> 19950, 199.004 -> 19900, 500 -> 50000);
\* createCashfreeOrder sends the major-unit amount itself, unconverted.
C9_AmountConversionAmended ==
  \A p \in Procs :
    /\ (proc[p].op = "createPhonePeOrder" /\ proc[p].apiReqs >= 1)
         => SentMinorUnits(proc[p])
    /\ (proc[p].op = "createCashfreeOrder" /\ proc[p].apiReqs >= 1)
         => proc[p].sentAmount = proc[p].amount

\* a PhonePe order for 199.006 went out with 19901 paise
C9_Witness ==
  /\ proc[1].op = "createPhonePeOrder"
  /\ proc[1].amount = 199006
  /\ proc[1].apiReqs = 1
  /\ proc[1].sentAmount = Whole(19901)

\* C10: a step in which getAccessToken raises leaves the token cache as it
\* was.
C10_FailureKeepsCache ==
  [][\A p \in Procs :
       (proc[p].tokOutcome # "raised" /\ proc'[p].tokOutcome = "raised")
         => tokenCache' = tokenCache]_vars


\* clearTokenCache runs in this step while p's token request is in flight
ClearedInFlight(p) == ~proc[p].cleared /\ proc'[p].cleared

\* C11 (as stated): a token request that was in flight when clearTokenCache
\* ran does not fill the cache again: while the cache is still empty, handling
\* its answer leaves it empty; and a getAccessToken call that finds the cache
\* empty after the clear issues a token request.
C11_ClearHolds ==
  /\ [][\A p \in Procs :
          (Answered(p) /\ proc[p].cleared /\ tokenCache = EmptyCache)
            => tokenCache' = EmptyCache]_vars
  /\ [][\A p \in Procs :
          (Invokes(p) /\ tokenCache = EmptyCache
                      /\ hasClientId /\ hasClientSecret)
            => proc'[p].tokReqs = 1]_vars

\* C11 (amended): clearTokenCache empties the cache at the moment it runs; an
\* empty cache is filled again only by handling a token answer, and the
\* answer to a request that was in flight at the clear fills it like any
\* other; a call that finds the cache empty, with credentials configured,
\* issues a token request.
C11_ClearHoldsAmended ==
  /\ [][\A p \in Procs : ClearedInFlight(p) => tokenCache' = EmptyCache]_vars
  /\ [][(tokenCache = EmptyCache /\ tokenCache' # EmptyCache)
          => \E p \in Procs :
               /\ Answered(p)
               /\ proc'[p].tokBody.access_token \in Tokens]_vars
  /\ [][\A p \in Procs :
          (Answered(p) /\ proc[p].cleared
             /\ proc'[p].tokBody.access_token \in Tokens)
            => tokenCache'.accessToken = proc'[p].tokBody.access_token]_vars
  /\ [][\A p \in Procs :
          (Invokes(p) /\ tokenCache = EmptyCache
                      /\ hasClientId /\ hasClientSecret)
            => proc'[p].tokReqs = 1]_vars

\* a request in flight at a clear was answered afterwards and its token is
\* the one cached, while the only other call holds a different token
C11_Witness ==
  /\ proc[1].cleared
  /\ proc[1].tokOutcome = "returned"
  /\ tokenCache.accessToken = proc[1].tokValue
  /\ proc[2].pc = "done"
  /\ proc[2].tokValue \in Tokens
  /\ proc[2].tokValue # proc[1].tokValue
  /\ calls = 2

====
